---- MODULE Spec2Model ----
(***************************************************************************)
(* Bray-Curtis / PCoA pipeline of BetaDIversityPLotting.py (main).         *)
(*                                                                         *)
(* Text is modelled at character level: a string is a sequence of          *)
(* one-character strings, so that strip(), split(), isdigit() and int()    *)
(* are computed as Python computes them.  Floating point values of the     *)
(* dissimilarity matrix are modelled as exact fractions <<num, den>> in    *)
(* lowest terms.                                                           *)
(***************************************************************************)
EXTENDS Integers, Sequences, FiniteSets, TLC

(***************************************************************************)
(* Bounds of the model.                                                    *)
(***************************************************************************)
\* Largest number of input files given with -i.
MaxFiles == 5

(***************************************************************************)
(* Characters and Python string operations.                                *)
(***************************************************************************)
TAB == "\t"
NL == "\n"
\* U+00B2 SUPERSCRIPT TWO: str.isdigit() is True for it, int() rejects it.
SUP2 == "sup2"

\* Characters removed by str.strip() with no argument.
Whitespace == {" ", TAB, NL}

\* Characters int() accepts as digits (Unicode category Nd; ASCII here).
DecimalChars == {"0", "1", "2", "3", "4", "5", "6", "7", "8", "9"}

\* Characters for which str.isdigit() is True: decimals and other digits.
DigitChars == DecimalChars \cup {SUP2}

DigitValue(ch) ==
  CASE ch = "0" -> 0 [] ch = "1" -> 1 [] ch = "2" -> 2 [] ch = "3" -> 3
    [] ch = "4" -> 4 [] ch = "5" -> 5 [] ch = "6" -> 6 [] ch = "7" -> 7
    [] ch = "8" -> 8 [] ch = "9" -> 9

RECURSIVE LStrip(_)
LStrip(s) ==
  IF s # <<>> /\ Head(s) \in Whitespace THEN LStrip(Tail(s)) ELSE s

RECURSIVE RStrip(_)
RStrip(s) ==
  IF s # <<>> /\ s[Len(s)] \in Whitespace
    THEN RStrip(SubSeq(s, 1, Len(s) - 1))
    ELSE s

\* str.strip(): leading and trailing whitespace removed.
Strip(s) == RStrip(LStrip(s))

\* str.split(sep): the fields between separators; always at least one field
\* (the empty string splits into one empty field).
RECURSIVE SplitAcc(_, _, _)
SplitAcc(s, sep, cur) ==
  IF s = <<>> THEN <<cur>>
  ELSE IF Head(s) = sep THEN <<cur>> \o SplitAcc(Tail(s), sep, <<>>)
  ELSE SplitAcc(Tail(s), sep, Append(cur, Head(s)))

Split(s, sep) == SplitAcc(s, sep, <<>>)

\* str.isdigit(): non-empty and every character is a digit character.
IsDigit(s) == s # <<>> /\ \A k \in 1..Len(s) : s[k] \in DigitChars

\* Whether int(s) succeeds: an optional sign followed by decimal digits.
IntParses(s) ==
  LET body == IF s # <<>> /\ Head(s) \in {"-", "+"} THEN Tail(s) ELSE s
  IN  body # <<>> /\ \A k \in 1..Len(body) : body[k] \in DecimalChars

RECURSIVE DecimalValue(_, _)
DecimalValue(s, acc) ==
  IF s = <<>> THEN acc
  ELSE DecimalValue(Tail(s), 10 * acc + DigitValue(Head(s)))

\* int(s) where IntParses(s).
IntValue(s) ==
  IF Head(s) = "-" THEN 0 - DecimalValue(Tail(s), 0)
  ELSE IF Head(s) = "+" THEN DecimalValue(Tail(s), 0)
  ELSE DecimalValue(s, 0)

\* Python list indexing l[idx]: negative indices count from the end.
IndexOk(l, idx) == idx < Len(l) /\ idx >= 0 - Len(l)

ListItem(l, idx) == IF idx >= 0 THEN l[idx + 1] ELSE l[Len(l) + idx + 1]

(***************************************************************************)
(* Inputs: the --cols arguments and the files the run may be given.        *)
(***************************************************************************)
\* Values of --cols: the default "1,2"; "0,2" and "0,1" (a 0 given where 1
\* is the first column); "1,3" (a count column beyond two-column records);
\* "2,1" (count first, category second); and "1" (no comma).
ColsArgs ==
  { <<"1", ",", "2">>, <<"0", ",", "2">>, <<"0", ",", "1">>,
    <<"1", ",", "3">>, <<"2", ",", "1">>, <<"1">> }

\* The files on disk, by name, each a sequence of raw lines.
FileContents ==
  [ fn \in {"A.tsv", "B.tsv", "C.tsv", "H.tsv", "Z.tsv", "S.tsv", "U.tsv"} |->
    CASE fn = "A.tsv" -> << <<"#", TAB, "7", NL>>,
                           <<"x", TAB, "1", "0", NL>>,
                           <<"y", TAB, "5", NL>> >>
      [] fn = "B.tsv" -> << <<"x", TAB, "5", NL>>,
                           <<"y", TAB, "4", NL>>,
                           <<"y", TAB, "N", "A", NL>>,
                           <<"y", TAB, "6", NL>> >>
      [] fn = "C.tsv" -> << <<"z", TAB, "2", "0">> >>
      [] fn = "H.tsv" -> << <<"#", "g", TAB, "7", NL>>,
                           <<NL>>,
                           <<"y", TAB, "5", NL>> >>
      [] fn = "Z.tsv" -> << <<"x", TAB, "-", "5", NL>>,
                           <<"7", TAB, "q", NL>>,
                           <<"x", TAB, "0", NL>> >>
      [] fn = "S.tsv" -> << <<"x", TAB, NL>> >>
      [] fn = "U.tsv" -> << <<"x", TAB, SUP2, NL>> >> ]

\* File names that may appear in args.in_files; "missing.tsv" is not on disk.
FileNames == DOMAIN FileContents \cup {"missing.tsv"}

\* os.path.isfile(f)
IsFile(fn) == fn \in DOMAIN FileContents

\* Answers the user may type at the sample-name prompt.
SampleNames == {"s"}

(***************************************************************************)
(* Program state.                                                          *)
(***************************************************************************)
VARIABLES
  pc,             \* position in main()
  err,            \* the exception that ended the run, "none" while running
  categ_col,      \* 0-based category column
  count_col,      \* 0-based count column
  num_samples,
  num_categories,
  i2totals,       \* sample index -> total count
  i2counts,       \* sample index -> (category -> count)
  i2names,        \* sample index -> display name
  f,              \* the file of args.in_files the loop is at, "" before the loop
  openFiles,      \* sample indices whose file handle is open
  rest,           \* lines of i_file not yet iterated
  bc,             \* <<i, j>> -> dissimilarity, a fraction <<num, den>>
  i, j,           \* loop indices of the dissimilarity loops
  bc_ij,          \* the value computed for the current pair
  pcoa_axes,      \* number of axes (PC1..PCn) in pcoa_results.samples
  pcoa_df,        \* sample index -> [PC1, PC2]: offset from the ordination value
  script,         \* which charting script runs: "stacked", "bubble", "heatmap"
  rank,           \* load_bracken_files: the taxonomic level asked for
  top_n,          \* load_bracken_files: number of taxa to keep
  file_paths,     \* load_bracken_files: report files still to read, in order
  dataframes,     \* load_bracken_files: rows read so far, each with its sample_id
  top_taxa,       \* load_bracken_files: the names nlargest() kept, best first
  bar_data,       \* the frame (or pivot table) load_bracken_files returned
  sample_data,    \* rarefaction_curve: the rows of the sample
  total_reads,    \* rarefaction_curve: sum of new_est_reads of the sample
  depth,          \* rarefaction_curve: the loop variable
  rarefaction_data \* rarefaction_curve: depth -> number of unique taxa

vars ==
  << pc, err, categ_col, count_col, num_samples, num_categories, i2totals,
     i2counts, i2names, f, openFiles, rest, bc, i, j, bc_ij, pcoa_axes, pcoa_df,
     script, rank, top_n, file_paths, dataframes, top_taxa, bar_data,
     sample_data, total_reads, depth, rarefaction_data >>

aggVars == << num_samples, num_categories, i2totals, i2counts, i2names, f, openFiles, rest >>
colVars == << categ_col, count_col >>
bcVars == << bc, i, j, bc_ij >>
pcoaVars == << pcoa_axes, pcoa_df >>
mainVars == << colVars, aggVars, bcVars, pcoaVars >>
brackenVars == << script, rank, top_n, file_paths, dataframes, top_taxa, bar_data >>
rareVars == << sample_data, total_reads, depth, rarefaction_data >>
toolVars == << brackenVars, rareVars >>

\* The data of main() before it runs.
MainIdle ==
  /\ categ_col = 0
  /\ count_col = 0
  /\ num_samples = 0
  /\ num_categories = 0
  /\ i2totals = <<>>
  /\ i2counts = <<>>
  /\ i2names = <<>>
  /\ f = ""
  /\ openFiles = {}
  /\ rest = <<>>
  /\ bc = <<>>
  /\ i = 0
  /\ j = 0
  /\ bc_ij = <<0, 1>>
  /\ pcoa_axes = 0
  /\ pcoa_df = <<>>

\* The data of the charting scripts before load_bracken_files runs.
BrackenIdle ==
  /\ script = ""
  /\ rank = ""
  /\ top_n = 0
  /\ file_paths = <<>>
  /\ dataframes = <<>>
  /\ top_taxa = <<>>
  /\ bar_data = <<>>

\* The data of the rarefaction script before rarefaction_curve runs.
RareIdle ==
  /\ sample_data = <<>>
  /\ total_reads = 0
  /\ depth = 0
  /\ rarefaction_data = <<>>

Init ==
  /\ pc = "args"
  /\ err = "none"
  /\ MainIdle
  /\ BrackenIdle
  /\ RareIdle

\* An exception (or exit) ends the run where it is raised.
Raise(e) == pc' = "failed" /\ err' = e

(***************************************************************************)
(* Step 1: the Aggregator (lines 25-60).                                   *)
(***************************************************************************)
\* categ_col, count_col = map(int, args.cols.split(',')), then both minus 1.
ParseCols ==
  /\ pc = "args"
  /\ \E c \in ColsArgs :
       LET parts == Split(c, ",")
       IN  IF Len(parts) # 2 \/ \E k \in 1..Len(parts) : ~IntParses(parts[k])
             THEN Raise("ValueError") /\ UNCHANGED colVars
             ELSE /\ categ_col' = IntValue(parts[1]) - 1
                  /\ count_col' = IntValue(parts[2]) - 1
                  /\ pc' = "files"
                  /\ err' = err
  /\ UNCHANGED << aggVars, bcVars, pcoaVars, toolVars >>

\* Fault variant of OpenFile: a file that does not exist is passed over and
\* the loop goes on to the next one.
OpenFileSkipMissing ==
  /\ pc = "files"
  /\ num_samples < MaxFiles
  /\ \E fn \in FileNames :
       /\ f' = fn
       /\ IF ~IsFile(fn)
            THEN UNCHANGED << pc, err, num_samples, num_categories, i2totals,
                              i2counts, i2names, openFiles, rest >>
            ELSE \E sample_name \in SampleNames :
                   /\ openFiles' = openFiles \cup {num_samples}
                   /\ i2totals' = (num_samples :> 0) @@ i2totals
                   /\ i2counts' = (num_samples :> <<>>) @@ i2counts
                   /\ i2names' = (num_samples :> sample_name) @@ i2names
                   /\ rest' = FileContents[fn]
                   /\ pc' = "lines"
                   /\ err' = err
                   /\ UNCHANGED << num_samples, num_categories >>
  /\ UNCHANGED << colVars, bcVars, pcoaVars, toolVars >>

\* One more file of args.in_files: the isfile check, open(), the two empty
\* entries, and the prompt for the sample's name.
OpenFile ==
  /\ pc = "files"
  /\ num_samples < MaxFiles
  /\ \E fn \in FileNames :
       /\ f' = fn
       /\ IF ~IsFile(fn)
            THEN /\ Raise("SystemExit1")
                 /\ UNCHANGED << num_samples, num_categories, i2totals, i2counts,
                                 i2names, openFiles, rest >>
            ELSE \E sample_name \in SampleNames :
                   /\ openFiles' = openFiles \cup {num_samples}
                   /\ i2totals' = (num_samples :> 0) @@ i2totals
                   /\ i2counts' = (num_samples :> <<>>) @@ i2counts
                   /\ i2names' = (num_samples :> sample_name) @@ i2names
                   /\ rest' = FileContents[fn]
                   /\ pc' = "lines"
                   /\ err' = err
                   /\ UNCHANGED << num_samples, num_categories >>
  /\ UNCHANGED << colVars, bcVars, pcoaVars, toolVars >>

\* Fault variant of AddCount: the bucket is overwritten instead of added to.
AddCountOverwrite(counts, categ, count) ==
  IF categ \in DOMAIN counts
    THEN [counts EXCEPT ![categ] = count]
    ELSE (categ :> count) @@ counts

\* i2counts[num_samples][curr_categ] += count, creating the bucket at 0.
AddCount(counts, categ, count) ==
  IF categ \in DOMAIN counts
    THEN [counts EXCEPT ![categ] = @ + count]
    ELSE (categ :> count) @@ counts

\* i2totals[num_samples] += count
AddTotal(total, count) == total + count

\* The test of line 49 once l_vals[count_col] exists: the line is skipped.
SkipLine(l_vals) ==
  \/ Len(l_vals) = 0
  \/ ~IsDigit(ListItem(l_vals, count_col))
  \/ l_vals[1] = <<"#">>

\* The body of "for line in i_file" for one line (lines 48-58).
ReadLine ==
  /\ pc = "lines"
  /\ rest # <<>>
  /\ LET line == Head(rest)
         l_vals == Split(Strip(line), TAB)
     IN  /\ rest' = Tail(rest)
         /\ IF Len(l_vals) # 0 /\ ~IndexOk(l_vals, count_col)
              THEN /\ Raise("IndexError")
                   /\ UNCHANGED << i2totals, i2counts, num_categories >>
            ELSE IF SkipLine(l_vals)
              THEN UNCHANGED << pc, err, i2totals, i2counts, num_categories >>
            ELSE IF ~IndexOk(l_vals, categ_col)
              THEN /\ Raise("IndexError")
                   /\ UNCHANGED << i2totals, i2counts, num_categories >>
            ELSE IF ~IntParses(ListItem(l_vals, count_col))
              THEN /\ Raise("ValueError")
                   /\ UNCHANGED << i2totals, i2counts, num_categories >>
            ELSE LET curr_categ == ListItem(l_vals, categ_col)
                     count == IntValue(ListItem(l_vals, count_col))
                 IN  /\ i2totals' = [i2totals EXCEPT ![num_samples] = AddTotal(@, count)]
                     /\ i2counts' = [i2counts EXCEPT ![num_samples] = AddCount(@, curr_categ, count)]
                     /\ num_categories' = num_categories + 1
                     /\ UNCHANGED << pc, err >>
  /\ UNCHANGED << num_samples, i2names, f, openFiles, colVars, bcVars, pcoaVars, toolVars >>

\* The file is exhausted: i_file.close() and num_samples += 1.
CloseFile ==
  /\ pc = "lines"
  /\ rest = <<>>
  /\ openFiles' = openFiles \ {num_samples}
  /\ num_samples' = num_samples + 1
  /\ pc' = "files"
  /\ UNCHANGED << err, num_categories, i2totals, i2counts, i2names, f, rest,
                  colVars, bcVars, pcoaVars, toolVars >>

(***************************************************************************)
(* Step 2: the Dissimilarity Calculator (lines 62-75).                     *)
(***************************************************************************)
RECURSIVE GCD(_, _)
GCD(a, b) == IF b = 0 THEN a ELSE GCD(b, a % b)

Abs(n) == IF n < 0 THEN 0 - n ELSE n

\* The fraction n/d (d > 0) in lowest terms.
Frac(n, d) == LET g == GCD(Abs(n), d) IN << n \div g, d \div g >>

\* a / b for fractions a and b, b > 0.
FracDiv(a, b) == Frac(a[1] * b[2], a[2] * b[1])

\* a - b for fractions.
FracSub(a, b) == Frac(a[1] * b[2] - b[1] * a[2], a[2] * b[2])

FracLeq(a, b) == a[1] * b[2] <= b[1] * a[2]

Zero == Frac(0, 1)
One == Frac(1, 1)

\* np.zeros((n, n))
Zeros(n) == [p \in (0..(n - 1)) \X (0..(n - 1)) |-> Zero]

\* Fault variant of Min: the larger of the two counts.
MinSwapped(a, b) == IF a <= b THEN b ELSE a

\* min(a, b) of line 71
Min(a, b) == IF a <= b THEN a ELSE b

\* Fault variant of SharedAbundance: the test "cat in i2counts[j]" is missing
\* and a category absent from sample j contributes sample i's count.
RECURSIVE SharedAbundanceNoTest(_, _, _)
SharedAbundanceNoTest(cats, ci, cj) ==
  IF cats = {} THEN 0
  ELSE LET cat == CHOOSE c \in cats : TRUE
       IN  (IF cat \in DOMAIN cj THEN Min(ci[cat], cj[cat]) ELSE ci[cat])
             + SharedAbundanceNoTest(cats \ {cat}, ci, cj)

\* The loop of lines 68-71 over the categories cats of sample i still to visit.
RECURSIVE SharedAbundance(_, _, _)
SharedAbundance(cats, ci, cj) ==
  IF cats = {} THEN 0
  ELSE LET cat == CHOOSE c \in cats : TRUE
       IN  (IF cat \in DOMAIN cj THEN Min(ci[cat], cj[cat]) ELSE 0)
             + SharedAbundance(cats \ {cat}, ci, cj)

\* Fault variant of BrayCurtis: the factor 2.0 is missing.
BrayCurtisNoFactor(C_ij, i_tot, j_tot) ==
  FracSub(One, FracDiv(Frac(C_ij, 1), Frac(i_tot + j_tot, 1)))

\* Fault variant of BrayCurtis: the divisor is i_tot alone.
BrayCurtisOneTotal(C_ij, i_tot, j_tot) ==
  FracSub(One, FracDiv(Frac(2 * C_ij, 1), Frac(i_tot, 1)))

\* bc_ij = 1.0 - ((2.0 * C_ij) / float(i_tot + j_tot)), for i_tot + j_tot # 0
BrayCurtis(C_ij, i_tot, j_tot) ==
  FracSub(One, FracDiv(Frac(2 * C_ij, 1), Frac(i_tot + j_tot, 1)))

\* The pair after (a, b) in the nested loops over 0 <= a < b < n, if any.
HasNextPair(a, b, n) == b + 1 < n \/ a + 2 < n

NextPair(a, b, n) == IF b + 1 < n THEN << a, b + 1 >> ELSE << a + 1, a + 2 >>

\* args.in_files is exhausted (it holds at least one file): bc = np.zeros and
\* the loops start at the first pair, if there is one.
StartDissim ==
  /\ pc = "files"
  /\ num_samples >= 1
  /\ bc' = Zeros(num_samples)
  /\ i' = 0
  /\ j' = 1
  /\ pc' = IF num_samples >= 2 THEN "dissim" ELSE "pcoa"
  /\ UNCHANGED << err, bc_ij, aggVars, colVars, pcoaVars, toolVars >>

\* The value an IEEE division 0.0/0.0 yields where no exception is raised.
NaN == << 0, 0 >>

\* Fault variant of CalcPair: the division by a zero total does not raise
\* (as with NumPy scalars) and NaN is stored for the pair.
CalcPairNaN ==
  /\ pc = "dissim"
  /\ LET i_tot == i2totals[i]
         j_tot == i2totals[j]
         C_ij == SharedAbundance(DOMAIN i2counts[i], i2counts[i], i2counts[j])
     IN  /\ bc_ij' = IF i_tot + j_tot = 0 THEN NaN ELSE BrayCurtis(C_ij, i_tot, j_tot)
         /\ bc' = [bc EXCEPT ![<< i, j >>] = bc_ij']
         /\ pc' = "mirror"
         /\ err' = err
  /\ UNCHANGED << i, j, aggVars, colVars, pcoaVars, toolVars >>

\* Lines 67-74 for the pair (i, j): C_ij, the division, bc[i][j] = bc_ij.
CalcPair ==
  /\ pc = "dissim"
  /\ LET i_tot == i2totals[i]
         j_tot == i2totals[j]
         C_ij == SharedAbundance(DOMAIN i2counts[i], i2counts[i], i2counts[j])
     IN  IF i_tot + j_tot = 0
           THEN Raise("ZeroDivisionError") /\ UNCHANGED << bc, bc_ij >>
           ELSE /\ bc_ij' = BrayCurtis(C_ij, i_tot, j_tot)
                /\ bc' = [bc EXCEPT ![<< i, j >>] = bc_ij']
                /\ pc' = "mirror"
                /\ err' = err
  /\ UNCHANGED << i, j, aggVars, colVars, pcoaVars, toolVars >>

\* Fault variant of Mirror: bc[i][j] is assigned a second time, bc[j][i] never.
MirrorSameCell ==
  /\ pc = "mirror"
  /\ bc' = [bc EXCEPT ![<< i, j >>] = bc_ij]
  /\ IF HasNextPair(i, j, num_samples)
       THEN /\ i' = NextPair(i, j, num_samples)[1]
            /\ j' = NextPair(i, j, num_samples)[2]
            /\ pc' = "dissim"
       ELSE /\ pc' = "pcoa"
            /\ UNCHANGED << i, j >>
  /\ UNCHANGED << err, bc_ij, aggVars, colVars, pcoaVars, toolVars >>

\* Line 75, bc[j][i] = bc_ij, and the advance of the loops to the next pair.
Mirror ==
  /\ pc = "mirror"
  /\ bc' = [bc EXCEPT ![<< j, i >>] = bc_ij]
  /\ IF HasNextPair(i, j, num_samples)
       THEN /\ i' = NextPair(i, j, num_samples)[1]
            /\ j' = NextPair(i, j, num_samples)[2]
            /\ pc' = "dissim"
       ELSE /\ pc' = "pcoa"
            /\ UNCHANGED << i, j >>
  /\ UNCHANGED << err, bc_ij, aggVars, colVars, pcoaVars, toolVars >>

(***************************************************************************)
(* Steps 3-5: ordination, jitter and plot (lines 77-124).                  *)
(***************************************************************************)
\* The principal coordinates main() reads: PC1 .. PC5 (lines 84-88).
NumAxesUsed == 5

\* What DistanceMatrix accepts: a symmetric matrix with a zero diagonal.
Symmetric(m, n) == \A a, b \in 0..(n - 1) : m[<< a, b >>] = m[<< b, a >>]

Hollow(m, n) == \A a \in 0..(n - 1) : m[<< a, a >>] = Zero

\* The number of axes of pcoa_results.samples for n samples: PC1 .. PCn.
AxesOf(n) == n

\* Lines 78-79: DistanceMatrix(...) and pcoa(...).
Pcoa ==
  /\ pc = "pcoa"
  /\ IF Symmetric(bc, num_samples) /\ Hollow(bc, num_samples)
       THEN pcoa_axes' = AxesOf(num_samples) /\ pc' = "extract" /\ err' = err
       ELSE Raise("DistanceMatrixError") /\ UNCHANGED pcoa_axes
  /\ UNCHANGED << pcoa_df, aggVars, colVars, bcVars, toolVars >>

\* Lines 82-89: the result table from columns PC1 .. PC5 of the ordination;
\* a column the ordination does not have raises KeyError.  Each coordinate is
\* held as its offset from the ordination's value.
Extract ==
  /\ pc = "extract"
  /\ IF pcoa_axes < NumAxesUsed
       THEN Raise("KeyError") /\ UNCHANGED pcoa_df
       ELSE /\ pcoa_df' = [k \in 0..(num_samples - 1) |-> [PC1 |-> 0, PC2 |-> 0]]
            /\ pc' = "jitter1"
            /\ err' = err
  /\ UNCHANGED << pcoa_axes, aggVars, colVars, bcVars, toolVars >>

\* Values of one draw of np.random.uniform(-jitter_strength, jitter_strength),
\* in units of jitter_strength.
JitterUnits == {0 - 1, 0, 1}

\* Draws of np.random.uniform(..., size=n) the model follows.
NoiseVectors(n) == {[k \in 0..(n - 1) |-> v] : v \in JitterUnits}

\* Line 93: pcoa_df['PC1'] += noise
Jitter1 ==
  /\ pc = "jitter1"
  /\ \E noise \in NoiseVectors(num_samples) :
       pcoa_df' = [k \in DOMAIN pcoa_df |-> [pcoa_df[k] EXCEPT !.PC1 = @ + noise[k]]]
  /\ pc' = "jitter2"
  /\ UNCHANGED << err, pcoa_axes, aggVars, colVars, bcVars, toolVars >>

\* Line 94: pcoa_df['PC2'] += noise
Jitter2 ==
  /\ pc = "jitter2"
  /\ \E noise \in NoiseVectors(num_samples) :
       pcoa_df' = [k \in DOMAIN pcoa_df |-> [pcoa_df[k] EXCEPT !.PC2 = @ + noise[k]]]
  /\ pc' = "plot"
  /\ UNCHANGED << err, pcoa_axes, aggVars, colVars, bcVars, toolVars >>

\* Lines 96-124: variance explained, axis ranges, the figure, fig.show().
Plot ==
  /\ pc = "plot"
  /\ pc' = "done"
  /\ UNCHANGED << err, aggVars, colVars, bcVars, pcoaVars, toolVars >>

Next ==
  \/ ParseCols
  \/ OpenFile
  \/ ReadLine
  \/ CloseFile
  \/ StartDissim
  \/ CalcPair
  \/ Mirror
  \/ Pcoa
  \/ Extract
  \/ Jitter1
  \/ Jitter2
  \/ Plot

Spec == Init /\ [][Next]_vars

(***************************************************************************)
(* Vocabulary of the properties.                                           *)
(***************************************************************************)
\* The samples whose aggregation has finished.
Samples == 0..(num_samples - 1)

\* The pairs the dissimilarity loops visit.
Pairs == {p \in Samples \X Samples : p[1] < p[2]}

\* bc has been created (line 63 has run).
MatrixBuilt == bc # <<>>

\* The dissimilarity loops have run to their end.
DissimFinished ==
  \/ pc \in {"pcoa", "extract", "jitter1", "jitter2", "plot", "done"}
  \/ pc = "failed" /\ err \in {"KeyError", "DistanceMatrixError"}

\* The loops have left the pair (a, b) behind.
PairPassed(a, b) ==
  MatrixBuilt /\ (DissimFinished \/ a < i \/ (a = i /\ b < j))

\* bc[a][b] has been assigned for the pair (a, b).
UpperStored(a, b) == PairPassed(a, b) \/ (pc = "mirror" /\ a = i /\ b = j)

\* Every line of every input file.
AllLines ==
  UNION { { FileContents[fn][k] : k \in 1..Len(FileContents[fn]) } : fn \in DOMAIN FileContents }

\* The widest record of the input files, in tab-separated columns.
RecordWidth ==
  LET widths == { Len(Split(Strip(line), TAB)) : line \in AllLines }
  IN  CHOOSE w \in widths : \A v \in widths : v <= w

\* Both column indices are 0-based offsets into the records.
ValidCols ==
  /\ categ_col \in 0..(RecordWidth - 1)
  /\ count_col \in 0..(RecordWidth - 1)

\* The run uses the default --cols 1,2.
DefaultCols == categ_col = 0 /\ count_col = 1

(***************************************************************************)
(* C1: the Bray-Curtis matrix holds the reference values.                  *)
(***************************************************************************)
\* The reference shared abundance: the sum, over the categories of S, of the
\* smaller of the two counts.
RECURSIVE RefShared(_, _, _)
RefShared(S, ca, cb) ==
  IF S = {} THEN 0
  ELSE LET c == CHOOSE x \in S : TRUE
       IN  (IF ca[c] <= cb[c] THEN ca[c] ELSE cb[c]) + RefShared(S \ {c}, ca, cb)

\* The fraction d equals 1 - 2*C_ab/(total_a + total_b).
IsReference(d, a, b) ==
  LET C == RefShared(DOMAIN i2counts[a] \cap DOMAIN i2counts[b], i2counts[a], i2counts[b])
      T == i2totals[a] + i2totals[b]
  IN  d[2] > 0 /\ d[1] * T = d[2] * (T - 2 * C)

\* The samples A={x:10,y:5}, B={x:5,y:10}, C={z:20}, in this order.
ScenarioABC ==
  /\ num_samples = 3
  /\ i2counts = (0 :> ((<<"x">> :> 10) @@ (<<"y">> :> 5)))
             @@ (1 :> ((<<"x">> :> 5) @@ (<<"y">> :> 10)))
             @@ (2 :> (<<"z">> :> 20))

\* C1: every off-diagonal entry of bc that has been assigned equals
\* 1 - 2*C_ij/(total_i + total_j), C_ij the sum over the shared categories of
\* the smaller count; for A={x:10,y:5}, B={x:5,y:10}, C={z:20} the finished
\* matrix holds d_AB = 1/3 and d_AC = d_BC = 1.
C1_BrayCurtisMatchesReference ==
  /\ \A p \in Pairs :
       /\ UpperStored(p[1], p[2]) => IsReference(bc[<< p[1], p[2] >>], p[1], p[2])
       /\ PairPassed(p[1], p[2]) => IsReference(bc[<< p[2], p[1] >>], p[1], p[2])
  /\ (ScenarioABC /\ DissimFinished) =>
       /\ bc[<< 0, 1 >>] = << 1, 3 >> /\ bc[<< 1, 0 >>] = << 1, 3 >>
       /\ bc[<< 0, 2 >>] = << 1, 1 >> /\ bc[<< 2, 0 >>] = << 1, 1 >>
       /\ bc[<< 1, 2 >>] = << 1, 1 >> /\ bc[<< 2, 1 >>] = << 1, 1 >>

\* The three-sample scenario has been aggregated under the default columns
\* and its matrix is complete.
C1_Witness ==
  /\ ScenarioABC
  /\ DissimFinished
  /\ categ_col = 0 /\ count_col = 1
  /\ i2totals = (0 :> 15) @@ (1 :> 15) @@ (2 :> 20)

(***************************************************************************)
(* C2: symmetry and zero diagonal of bc.                                   *)
(***************************************************************************)
\* C2 as stated: at every point of the dissimilarity loop and after it, bc is
\* symmetric and has a zero diagonal (for runs with the default --cols).
C2_SymmetricAtEveryPoint ==
  (MatrixBuilt /\ DefaultCols) =>
    Symmetric(bc, num_samples) /\ Hollow(bc, num_samples)

\* C2 as amended: bc has a zero diagonal at every point, and is symmetric at
\* every point except between the two assignments bc[i][j] = bc_ij and
\* bc[j][i] = bc_ij of one iteration: at the start of every iteration of the
\* pair loop and after the loop completes.
C2_SymmetricBetweenIterations ==
  MatrixBuilt =>
    /\ Hollow(bc, num_samples)
    /\ pc # "mirror" => Symmetric(bc, num_samples)

\* The loop is at the start of an iteration with a non-zero value already
\* stored for an earlier pair.
C2_Witness ==
  /\ MatrixBuilt
  /\ pc = "dissim"
  /\ \E p \in Pairs : PairPassed(p[1], p[2]) /\ bc[<< p[1], p[2] >>] # Zero

(***************************************************************************)
(* C3: range of the dissimilarities.                                       *)
(***************************************************************************)
InUnitInterval(d) == FracLeq(Zero, d) /\ FracLeq(d, One)

\* C3: for every pair of samples with positive totals, the dissimilarity
\* stored for the pair lies in [0, 1].
C3_DissimilarityInUnitInterval ==
  \A p \in Pairs :
    (i2totals[p[1]] > 0 /\ i2totals[p[2]] > 0) =>
      /\ UpperStored(p[1], p[2]) => InUnitInterval(bc[<< p[1], p[2] >>])
      /\ PairPassed(p[1], p[2]) => InUnitInterval(bc[<< p[2], p[1] >>])

\* A pair of samples with positive totals whose stored dissimilarity lies
\* strictly between 0 and 1.
C3_Witness ==
  \E p \in Pairs :
    /\ i2totals[p[1]] > 0 /\ i2totals[p[2]] > 0
    /\ PairPassed(p[1], p[2])
    /\ bc[<< p[1], p[2] >>] \notin {Zero, One}

(***************************************************************************)
(* C4: a sample's total is the sum of its category counts.                 *)
(***************************************************************************)
RECURSIVE SumCounts(_, _)
SumCounts(S, counts) ==
  IF S = {} THEN 0
  ELSE LET c == CHOOSE x \in S : TRUE
       IN  counts[c] + SumCounts(S \ {c}, counts)

\* C4: after any number of processed lines, i2totals[s] equals the sum of the
\* values of i2counts[s], for every sample s.
C4_TotalIsSumOfCounts ==
  \A s \in DOMAIN i2totals :
    i2totals[s] = SumCounts(DOMAIN i2counts[s], i2counts[s])

\* A file is being read and its sample already holds two categories, one of
\* them accumulated from two lines (y: 4 + 6).
C4_Witness ==
  /\ pc = "lines"
  /\ num_samples \in DOMAIN i2counts
  /\ i2counts[num_samples] = (<<"x">> :> 5) @@ (<<"y">> :> 10)
  /\ i2totals[num_samples] = 15

(***************************************************************************)
(* C5: malformed lines.                                                    *)
(***************************************************************************)
\* A string of decimal digits.
IsNonNegInteger(s) == s # <<>> /\ \A k \in 1..Len(s) : s[k] \in DecimalChars

\* The line is empty, has too few columns to hold the count field, or its
\* count field is not a non-negative integer.
BadLine(line) ==
  LET fields == Split(Strip(line), TAB)
  IN  \/ Strip(line) = <<>>
      \/ Len(fields) <= count_col
      \/ ~IsNonNegInteger(fields[count_col + 1])

\* C5: a line that is empty, has too few columns for the count field, or
\* whose count field is not a non-negative integer is skipped silently: the
\* totals and the category counts stay as they are and the run goes on to
\* the next line (stated for runs with the default --cols).
C5_BadLinesSkippedSilently ==
  [][ (pc = "lines" /\ rest # <<>> /\ DefaultCols /\ BadLine(Head(rest))) =>
        /\ i2totals' = i2totals
        /\ i2counts' = i2counts
        /\ pc' = "lines"
        /\ err' = "none" ]_vars

(***************************************************************************)
(* C6: comment lines.                                                      *)
(***************************************************************************)
\* C6: a line prefixed with '#' adds nothing to the sample's total or to any
\* category bucket, whatever its other fields hold (stated for runs with the
\* default --cols).
C6_HashLinesSkipped ==
  [][ (pc = "lines" /\ rest # <<>> /\ DefaultCols
         /\ Head(rest) # <<>> /\ Head(rest)[1] = "#") =>
        /\ i2totals' = i2totals
        /\ i2counts' = i2counts ]_vars

(***************************************************************************)
(* C7: column indices that are no valid offsets.                           *)
(***************************************************************************)
\* C7: with a category or count column that is no valid 0-based offset into
\* the records, the run stops before processing: no file has been opened, no
\* sample name asked for and no line aggregated.
C7_InvalidColsStopBeforeProcessing ==
  ~ValidCols =>
    /\ openFiles = {}
    /\ i2names = <<>>
    /\ i2totals = <<>>
    /\ num_categories = 0

(***************************************************************************)
(* C8: two samples with total 0.                                           *)
(***************************************************************************)
ZeroSum(a, b) == i2totals[a] + i2totals[b] = 0

\* C8: for a pair of samples whose totals are both 0 no value is ever stored
\* in bc (neither NaN nor anything else), the step that reaches the pair
\* ends the run with ZeroDivisionError, and no ordination result is produced.
C8_ZeroSumPairAborts ==
  /\ [](\A p \in Pairs :
          (MatrixBuilt /\ ZeroSum(p[1], p[2])) =>
            /\ ~UpperStored(p[1], p[2])
            /\ bc[<< p[1], p[2] >>] = Zero
            /\ bc[<< p[2], p[1] >>] = Zero
            /\ pcoa_axes = 0
            /\ pcoa_df = <<>>
            /\ pc = "failed" => err = "ZeroDivisionError")
  /\ [][ (pc = "dissim" /\ ZeroSum(i, j)) =>
           /\ pc' = "failed"
           /\ err' = "ZeroDivisionError"
           /\ bc' = bc ]_vars

\* The run has ended with ZeroDivisionError at a pair of samples with total
\* 0, after a value was stored for an earlier pair.
C8_Witness ==
  /\ pc = "failed"
  /\ err = "ZeroDivisionError"
  /\ ZeroSum(i, j)
  /\ bc[<< i, j >>] = Zero
  /\ pcoa_axes = 0
  /\ \E p \in Pairs : PairPassed(p[1], p[2]) /\ bc[<< p[1], p[2] >>] = One

(***************************************************************************)
(* C9: a single sample.                                                    *)
(***************************************************************************)
\* C9: with exactly one sample the matrix is the 1x1 zero matrix and the run
\* does not fail after it: the ordination result is extracted and the plot
\* stage reached (stated for runs with the default --cols).
C9_SingleSampleCompletes ==
  (MatrixBuilt /\ num_samples = 1 /\ DefaultCols) =>
    /\ bc = Zeros(1)
    /\ pc # "failed"

(***************************************************************************)
(* C10: release of the file handles.                                       *)
(***************************************************************************)
\* C10: at most one input file is open at any time, and none is open when
\* the run is not reading a file's lines: after each file, after the
\* aggregation, and when the run has been ended by an error (stated for runs
\* with the default --cols).
C10_FileHandlesReleased ==
  DefaultCols =>
    /\ Cardinality(openFiles) <= 1
    /\ pc # "lines" => openFiles = {}

(***************************************************************************)
(* C11: the plotting jitter and the result table.                          *)
(***************************************************************************)
\* C11: the jitter does not leak into the result table: once the jitter step
\* has run, the PC1 and PC2 values held in pcoa_df are the values the
\* ordination returned (stated for runs with the default --cols; no argument
\* of the run switches the jitter off).
C11_JitterDoesNotLeak ==
  (DefaultCols /\ pc \in {"jitter2", "plot", "done"}) =>
    \A k \in DOMAIN pcoa_df : pcoa_df[k].PC1 = 0 /\ pcoa_df[k].PC2 = 0

(***************************************************************************)
(* C12: an input file that does not exist.                                 *)
(***************************************************************************)
\* C12: when the loop reaches a file that does not exist, whatever its
\* position, the run ends there with exit status 1: nothing is opened or asked
\* for that file, and no matrix, ordination result or plot is produced.
C12_MissingFileExits ==
  (f # "" /\ ~IsFile(f)) =>
    /\ pc = "failed"
    /\ err = "SystemExit1"
    /\ openFiles = {}
    /\ num_samples \notin DOMAIN i2names
    /\ bc = <<>>
    /\ pcoa_axes = 0
    /\ pcoa_df = <<>>

\* The third file of the list does not exist and the run has ended with exit
\* status 1 after two samples were aggregated.
C12_Witness ==
  /\ f = "missing.tsv"
  /\ err = "SystemExit1"
  /\ num_samples = 2
  /\ i2totals[0] > 0

(***************************************************************************)
(* C13 and C14: disjoint and identical samples.                            *)
(***************************************************************************)
\* The dissimilarity the code computes for two samples given as mappings.
PairValue(ca, cb) ==
  BrayCurtis(SharedAbundance(DOMAIN ca, ca, cb),
             SumCounts(DOMAIN ca, ca), SumCounts(DOMAIN cb, cb))

PositiveTotals(a, b) == i2totals[a] > 0 /\ i2totals[b] > 0

\* The 2x2 matrix [[0, d], [d, 0]].
Matrix2(d) ==
  (<< 0, 0 >> :> Zero) @@ (<< 0, 1 >> :> d) @@ (<< 1, 0 >> :> d) @@ (<< 1, 1 >> :> Zero)

\* C13: for two samples with disjoint category sets and positive totals the
\* stored dissimilarity is exactly 1; A={catX:10}, B={catY:10} give 1, and two
\* such samples alone give the matrix [[0,1],[1,0]].
C13_DisjointSamplesGiveOne ==
  /\ PairValue("catX" :> 10, "catY" :> 10) = One
  /\ \A p \in Pairs :
       (PositiveTotals(p[1], p[2])
          /\ DOMAIN i2counts[p[1]] \cap DOMAIN i2counts[p[2]] = {}) =>
         /\ UpperStored(p[1], p[2]) => bc[<< p[1], p[2] >>] = One
         /\ PairPassed(p[1], p[2]) => bc[<< p[2], p[1] >>] = One
         /\ (num_samples = 2 /\ DissimFinished) => bc = Matrix2(One)

\* Two samples with disjoint categories and positive totals, matrix complete.
C13_Witness ==
  /\ num_samples = 2
  /\ DissimFinished
  /\ PositiveTotals(0, 1)
  /\ DOMAIN i2counts[0] \cap DOMAIN i2counts[1] = {}
  /\ DOMAIN i2counts[0] # {}
  /\ DOMAIN i2counts[1] # {}
  /\ bc = Matrix2(One)

\* C14: for two samples with identical category-to-count mappings and
\* positive totals the stored dissimilarity is exactly 0; A={catX:10},
\* B={catX:10} give 0, and two such samples alone give [[0,0],[0,0]].
C14_IdenticalSamplesGiveZero ==
  /\ PairValue("catX" :> 10, "catX" :> 10) = Zero
  /\ \A p \in Pairs :
       (PositiveTotals(p[1], p[2]) /\ i2counts[p[1]] = i2counts[p[2]]) =>
         /\ UpperStored(p[1], p[2]) => bc[<< p[1], p[2] >>] = Zero
         /\ PairPassed(p[1], p[2]) => bc[<< p[2], p[1] >>] = Zero
         /\ (num_samples = 2 /\ DissimFinished) => bc = Matrix2(Zero)

\* Two samples with the same two-category mapping, matrix complete.
C14_Witness ==
  /\ num_samples = 2
  /\ DissimFinished
  /\ PositiveTotals(0, 1)
  /\ i2counts[0] = i2counts[1]
  /\ Cardinality(DOMAIN i2counts[0]) = 2
  /\ bc = Matrix2(Zero)

(***************************************************************************)
(* The charting scripts: GstackedPlots_Bracken.py, GubbleGraph_bracken.py, *)
(* GheatMap_bracken.py (and its copies in DendrogramSeaborn2.py and        *)
(* GuiToolsHeatmap.py).  load_bracken_files reads every *.txt report of a  *)
(* folder, keeps the rows of one rank, keeps the top_n taxa and, in the    *)
(* stacked-bar and bubble scripts, folds the rest into "Other" rows.       *)
(* fraction_total_reads is modelled exactly, in hundredths.                *)
(***************************************************************************)
\* Largest number of report files in the input folder.
MaxReports == 2
\* Largest top_n asked for.
MaxTopN == 3

\* "_bracken.txt", the text removed from a file name to get the sample id.
BrackenSuffix == << "_", "b", "r", "a", "c", "k", "e", "n", ".", "t", "x", "t" >>

IsPrefix(p, s) == Len(p) <= Len(s) /\ SubSeq(s, 1, Len(p)) = p

\* str.replace(old, ""): every occurrence of old, left to right, removed.
RECURSIVE Remove(_, _)
Remove(s, old) ==
  IF s = <<>> THEN <<>>
  ELSE IF IsPrefix(old, s) THEN Remove(SubSeq(s, Len(old) + 1, Len(s)), old)
  ELSE << Head(s) >> \o Remove(Tail(s), old)

\* os.path.basename(file).replace("_bracken.txt", "")
SampleId(file) == Remove(file, BrackenSuffix)

\* What (\d+) captures at the start of s: the longest run of decimal digits.
RECURSIVE LeadingDigits(_)
LeadingDigits(s) ==
  IF s # <<>> /\ Head(s) \in DecimalChars
    THEN << Head(s) >> \o LeadingDigits(Tail(s))
    ELSE <<>>

\* re.match(r"(\d+)_", filename) is not None
MatchesNumberUnderscore(filename) ==
  LET d == LeadingDigits(filename)
  IN  d # <<>> /\ Len(filename) > Len(d) /\ filename[Len(d) + 1] = "_"

\* float('inf') as a sort key: <<1, 0>>; the integer n: <<0, n>>.
Inf == << 1, 0 >>

extract_number(filename) ==
  IF MatchesNumberUnderscore(filename)
    THEN << 0, DecimalValue(LeadingDigits(filename), 0) >>
    ELSE Inf

KeyLess(a, b) == a[1] < b[1] \/ (a[1] = b[1] /\ a[2] < b[2])

\* sorted() is stable: x goes behind every element whose key is not larger.
RECURSIVE InsertByKey(_, _)
InsertByKey(x, sorted) ==
  IF sorted = <<>> THEN << x >>
  ELSE IF KeyLess(extract_number(x), extract_number(Head(sorted)))
    THEN << x >> \o sorted
    ELSE << Head(sorted) >> \o InsertByKey(x, Tail(sorted))

RECURSIVE natural_sort(_)
natural_sort(paths) ==
  IF paths = <<>> THEN <<>>
  ELSE InsertByKey(paths[Len(paths)],
                   natural_sort(SubSeq(paths, 1, Len(paths) - 1)))

\* Report files of the folder (base names).  "ctrl_bracken.txt" has no leading
\* number; "3_soil.txt" keeps ".txt" in its sample id.
File1 == << "1" >> \o BrackenSuffix
File2 == << "2" >> \o BrackenSuffix
File10 == << "1", "0" >> \o BrackenSuffix
FileCtrl == << "c", "t", "r", "l" >> \o BrackenSuffix
FileSoil == << "3", "_", "s", "o", "i", "l", ".", "t", "x", "t" >>

ReportFiles == { File1, File2, File10, FileCtrl, FileSoil }

Row(n, lvl, frac) == [name |-> n, taxonomy_lvl |-> lvl, fraction_total_reads |-> frac]

\* pd.read_csv(file, sep="\t", usecols=[...]): the rows of each report.
\* File2 holds a genus named "Other"; File10 holds two rows named "Vibrio".
ReadCsv(file) ==
  CASE file = File1 ->
         << Row("Bacillus", "G", 40), Row("Vibrio", "G", 30),
            Row("Listeria", "G", 20), Row("Bacillus subtilis", "S", 10) >>
    [] file = File2 ->
         << Row("Bacillus", "G", 10), Row("Vibrio", "G", 20),
            Row("Listeria", "G", 30), Row("Other", "G", 40) >>
    [] file = File10 ->
         << Row("Vibrio", "G", 60), Row("Vibrio", "G", 15),
            Row("Bacillus", "G", 25) >>
    [] file = FileCtrl ->
         << Row("Bacillus", "G", 100) >>
    [] file = FileSoil ->
         << Row("Escherichia coli", "S", 70), Row("Bacillus subtilis", "S", 30) >>

Ranks == {"G", "S"}
Scripts == {"stacked", "bubble", "heatmap"}

\* glob.glob(): the files of the folder in an arbitrary order.
GlobResults ==
  UNION { { q \in [1..n -> ReportFiles] : \A a, b \in 1..n : a # b => q[a] # q[b] }
          : n \in 0..MaxReports }

\* Group keys come out of groupby() sorted; taxon names in str order.
TaxonOrder ==
  << "Bacillus", "Bacillus subtilis", "Escherichia coli", "Listeria", "Other",
     "Vibrio" >>

Position(n) == CHOOSE k \in DOMAIN TaxonOrder : TaxonOrder[k] = n

\* Characters of sample ids in code point order, for sorting sample ids.
CodeOrder ==
  << ".", "0", "1", "2", "3", "4", "5", "6", "7", "8", "9", "_", "c", "i", "l",
     "o", "r", "s", "t", "x" >>

Code(ch) == CHOOSE k \in DOMAIN CodeOrder : CodeOrder[k] = ch

\* a < b for Python strings.
RECURSIVE StrLess(_, _)
StrLess(a, b) ==
  IF b = <<>> THEN FALSE
  ELSE IF a = <<>> THEN TRUE
  ELSE IF Head(a) = Head(b) THEN StrLess(Tail(a), Tail(b))
  ELSE Code(Head(a)) < Code(Head(b))

\* df["sample_id"] = custom_sample_name
WithSample(df, sid) ==
  [k \in DOMAIN df |->
     [name |-> df[k].name, taxonomy_lvl |-> df[k].taxonomy_lvl,
      fraction_total_reads |-> df[k].fraction_total_reads, sample_id |-> sid]]

\* combined_df[combined_df["taxonomy_lvl"] == rank]
FilterRank(df, r) == SelectSeq(df, LAMBDA row : row.taxonomy_lvl = r)

NamesOf(df) == { df[k].name : k \in DOMAIN df }
SamplesOf(df) == { df[k].sample_id : k \in DOMAIN df }

RECURSIVE SumFraction(_)
SumFraction(df) ==
  IF df = <<>> THEN 0
  ELSE Head(df).fraction_total_reads + SumFraction(Tail(df))

\* filtered_df.groupby("name")["fraction_total_reads"].sum(), at one name
NameSum(df, n) == SumFraction(SelectSeq(df, LAMBDA row : row.name = n))

\* The name nlargest() takes next: the largest sum, the first in index order
\* among equal sums (keep='first').
Largest(S, df) ==
  CHOOSE n \in S : \A m \in S :
    \/ NameSum(df, n) > NameSum(df, m)
    \/ NameSum(df, n) = NameSum(df, m) /\ Position(n) <= Position(m)

Smallest(S, df) ==
  CHOOSE n \in S : \A m \in S :
    \/ NameSum(df, n) < NameSum(df, m)
    \/ NameSum(df, n) = NameSum(df, m) /\ Position(n) <= Position(m)

RECURSIVE NSmallest(_, _, _)
NSmallest(S, df, n) ==
  IF n <= 0 \/ S = {} THEN <<>>
  ELSE LET b == Smallest(S, df) IN << b >> \o NSmallest(S \ {b}, df, n - 1)

\* Series.nlargest(n).index over the per-name sums: at most n names, best
\* first; no name when n <= 0.
RECURSIVE NLargest(_, _, _)
NLargest(S, df, n) ==
  IF n <= 0 \/ S = {} THEN <<>>
  ELSE LET b == Largest(S, df) IN << b >> \o NLargest(S \ {b}, df, n - 1)

Range(q) == { q[k] : k \in DOMAIN q }

\* filtered_df[filtered_df["name"].isin(top_taxa)] and its complement
IsIn(df, names) == SelectSeq(df, LAMBDA row : row.name \in names)
NotIsIn(df, names) == SelectSeq(df, LAMBDA row : row.name \notin names)

OfSample(df, sid) == SelectSeq(df, LAMBDA row : row.sample_id = sid)

RECURSIVE SortedIds(_)
SortedIds(S) ==
  IF S = {} THEN <<>>
  ELSE LET m == CHOOSE x \in S : \A y \in S \ {x} : StrLess(x, y)
       IN  << m >> \o SortedIds(S \ {m})

\* other_taxa_df.groupby(["sample_id"])[...].sum().reset_index() with
\* name = "Other": one row per sample that has a folded row; concat leaves
\* taxonomy_lvl of these rows NaN.
OtherTaxaSum(other_taxa_df) ==
  LET ids == SortedIds(SamplesOf(other_taxa_df))
  IN  [k \in DOMAIN ids |->
         [name |-> "Other", taxonomy_lvl |-> "NaN",
          fraction_total_reads |-> SumFraction(OfSample(other_taxa_df, ids[k])),
          sample_id |-> ids[k]]]

\* DataFrame.pivot() raises ValueError when an (index, column) pair repeats.
PivotFails(df) ==
  \E a, b \in DOMAIN df :
    a # b /\ df[a].name = df[b].name /\ df[a].sample_id = df[b].sample_id

\* pivot(index="name", columns="sample_id", values=...) with fillna(0)
Pivot(df) ==
  IF df = <<>> THEN <<>>
  ELSE [c \in NamesOf(df) \X SamplesOf(df) |->
          SumFraction(SelectSeq(df, LAMBDA row :
                        row.name = c[1] /\ row.sample_id = c[2]))]

\* re.match(r'(\d+)', x) is None: int(None.group(1)) raises AttributeError
SortKeyFails(x) == LeadingDigits(x) = <<>>

\* load_bracken_files, lines 32-38: the files of the folder; the stacked-bar
\* and bubble scripts sort them, the heat map scripts take glob's order.
Glob ==
  /\ pc = "glob"
  /\ \E sc \in Scripts, r \in Ranks, n \in 0..MaxTopN, q \in GlobResults :
       /\ script' = sc
       /\ rank' = r
       /\ top_n' = n
       /\ file_paths' = IF sc = "heatmap" THEN q ELSE natural_sort(q)
  /\ pc' = "read"
  /\ UNCHANGED << err, dataframes, top_taxa, bar_data, mainVars, rareVars >>

\* load_bracken_files, lines 41-50: one iteration of the loop over the files.
ReadReport ==
  /\ pc = "read"
  /\ file_paths # <<>>
  /\ LET file == Head(file_paths)
     IN  dataframes' = dataframes \o WithSample(ReadCsv(file), SampleId(file))
  /\ file_paths' = Tail(file_paths)
  /\ UNCHANGED << pc, err, script, rank, top_n, top_taxa, bar_data, mainVars,
                  rareVars >>

\* load_bracken_files, lines 53-74, after the loop.  Every report has rows,
\* so dataframes is empty exactly when the folder has no report, and then
\* pd.concat([]) raises ValueError.
KeepTopTaxa ==
  /\ pc = "read"
  /\ file_paths = <<>>
  /\ LET filtered_df == FilterRank(dataframes, rank)
         top == NLargest(NamesOf(filtered_df), filtered_df, top_n)
         top_taxa_df == IsIn(filtered_df, Range(top))
         other_taxa_df == NotIsIn(filtered_df, Range(top))
     IN  IF dataframes = <<>>
           THEN Raise("ValueError") /\ UNCHANGED << top_taxa, bar_data >>
         ELSE IF filtered_df = <<>>
           THEN pc' = "plot" /\ bar_data' = <<>> /\ UNCHANGED << err, top_taxa >>
         ELSE IF script = "heatmap"
           THEN /\ top_taxa' = top
                /\ IF PivotFails(top_taxa_df)
                     THEN Raise("ValueError") /\ UNCHANGED bar_data
                     ELSE /\ pc' = "plot"
                          /\ bar_data' = Pivot(top_taxa_df)
                          /\ UNCHANGED err
         ELSE /\ top_taxa' = top
              /\ bar_data' = top_taxa_df \o OtherTaxaSum(other_taxa_df)
              /\ pc' = "plot"
              /\ UNCHANGED err
  /\ UNCHANGED << script, rank, top_n, file_paths, dataframes, mainVars, rareVars >>

\* plot_stacked_bar, lines 84-117.
PlotStackedBar ==
  /\ pc = "plot"
  /\ script = "stacked"
  /\ IF bar_data = <<>>
       THEN pc' = "done" /\ UNCHANGED err
     ELSE IF \E x \in SamplesOf(bar_data) : SortKeyFails(x)
       THEN Raise("AttributeError")
     ELSE pc' = "done" /\ UNCHANGED err
  /\ UNCHANGED << brackenVars, mainVars, rareVars >>

\* plot_bubble_chart (GubbleGraph_bracken.py, lines 43-60): no sorting.
PlotBubbleChart ==
  /\ pc = "plot"
  /\ script = "bubble"
  /\ pc' = "done"
  /\ UNCHANGED << err, brackenVars, mainVars, rareVars >>

\* plot_heatmap (GheatMap_bracken.py, lines 58-79).
PlotHeatmap ==
  /\ pc = "plot"
  /\ script = "heatmap"
  /\ pc' = "done"
  /\ UNCHANGED << err, brackenVars, mainVars, rareVars >>

BrackenInit ==
  /\ pc = "glob"
  /\ err = "none"
  /\ MainIdle
  /\ BrackenIdle
  /\ RareIdle

BrackenNext ==
  \/ Glob
  \/ ReadReport
  \/ KeepTopTaxa
  \/ PlotStackedBar
  \/ PlotBubbleChart
  \/ PlotHeatmap

BrackenSpec == BrackenInit /\ [][BrackenNext]_vars

(***************************************************************************)
(* Properties of the charting scripts.                                     *)
(***************************************************************************)
\* load_bracken_files has returned a frame (the plot may have run since).
Returned == pc \in {"plot", "done"} \/ err = "AttributeError"

\* The rows of the requested rank, as load_bracken_files filters them.
Filtered == FilterRank(dataframes, rank)

\* Number of rows named "Other" a sample has in a frame.
OtherRows(df, sid) ==
  Cardinality({ k \in DOMAIN df : df[k].sample_id = sid /\ df[k].name = "Other" })

\* Names of the rows of a returned frame that are not folded "Other" rows.
RetainedNames ==
  IF script = "heatmap"
    THEN { c[1] : c \in DOMAIN bar_data }
    ELSE { bar_data[k].name : k \in { m \in DOMAIN bar_data : bar_data[m].taxonomy_lvl # "NaN" } }

\* C15: in the stacked-bar and bubble scripts, for every sample of the
\* rank-filtered data the fractions of its rows in the returned frame add up
\* to the fractions of its rows in the filtered input, and the sample has at
\* most one row named "Other".
C15_OtherFoldingConserves ==
  (script \in {"stacked", "bubble"} /\ Returned /\ Filtered # <<>>) =>
    \A sid \in SamplesOf(Filtered) :
      /\ SumFraction(OfSample(bar_data, sid)) = SumFraction(OfSample(Filtered, sid))
      /\ OtherRows(bar_data, sid) <= 1

\* C16: load_bracken_files keeps min(top_n, number of taxa at the rank)
\* names, these are the names of the returned frame, and the summed fraction
\* of every kept name is at least that of every name not kept.
C16_TopTaxaKept ==
  (Returned /\ Filtered # <<>>) =>
    LET kept == Range(top_taxa)
        taxa == NamesOf(Filtered)
    IN  /\ kept \subseteq taxa
        /\ Cardinality(kept) = Min(top_n, Cardinality(taxa))
        /\ RetainedNames = kept
        /\ \A a \in kept : \A b \in taxa \ kept :
             NameSum(Filtered, a) >= NameSum(Filtered, b)

\* Four taxa at the rank, two kept, one of them by the tie rule, two folded.
C16_Witness ==
  /\ Returned
  /\ script = "stacked"
  /\ Cardinality(NamesOf(Filtered)) = 4
  /\ top_n = 2
  /\ top_taxa = << "Bacillus", "Listeria" >>
  /\ NameSum(Filtered, "Vibrio") = NameSum(Filtered, "Listeria")
  /\ NameSum(Filtered, "Other") < NameSum(Filtered, "Listeria")

\* C18: plot_stacked_bar plots every non-empty frame load_bracken_files
\* returns, whatever the sample ids are.
C18_NonEmptyFramePlotted ==
  (script = "stacked" /\ bar_data # <<>> /\ pc \in {"done", "failed"}) =>
    pc = "done" /\ err = "none"

(***************************************************************************)
(* The rarefaction script (GuiToolsHeatmap.py, second part):               *)
(* rarefaction_curve(data, sample_id).  The random subsample is a          *)
(* nondeterministic choice: sampling with replacement, weighted by         *)
(* new_est_reads, can draw any non-empty set of rows of positive weight    *)
(* that has at most depth rows.                                            *)
(***************************************************************************)
\* range(10, total_reads, 10): first depth and step.
DepthStep == 10

Reads(sid, tax, n) == [sample_id |-> sid, taxonomy_id |-> tax, new_est_reads |-> n]

\* The combined frame of the rarefaction load_bracken_files: six samples.
\* "e" has eleven taxa of one read each, "a" lists taxon 562 twice.
RareData ==
  << Reads("a", 562, 25), Reads("a", 1280, 12), Reads("a", 9606, 0),
     Reads("a", 562, 8),
     Reads("b", 562, 20),
     Reads("c", 562, 0),
     Reads("d", 562, 7),
     Reads("g", 562, 30), Reads("g", 1280, 20), Reads("g", 1313, 15) >>
  \o [k \in 1..11 |-> Reads("e", 100 + k, 1)]

RareSamples == { RareData[k].sample_id : k \in DOMAIN RareData }

RECURSIVE SumReads(_)
SumReads(df) ==
  IF df = <<>> THEN 0 ELSE Head(df).new_est_reads + SumReads(Tail(df))

\* Whether range(10, total, 10) still yields d.
InRangeInclusive(d, total) == d <= total

InRange(d, total) == d < total

\* The sets of rows a subsample of n draws can consist of.
Subsamples(df, n) ==
  { S \in SUBSET { k \in DOMAIN df : df[k].new_est_reads > 0 } :
      S # {} /\ Cardinality(S) <= n }

\* subsample["taxonomy_id"].nunique()
NUnique(df, S) == Cardinality({ df[k].taxonomy_id : k \in S })

\* rarefaction_curve, lines 175-179: the sample's rows and its total.
SelectSample ==
  /\ pc = "sample"
  /\ \E sid \in RareSamples :
       LET rows == SelectSeq(RareData, LAMBDA row : row.sample_id = sid)
       IN  /\ sample_data' = rows
           /\ total_reads' = SumReads(rows)
  /\ rarefaction_data' = <<>>
  /\ depth' = DepthStep
  /\ pc' = "loop"
  /\ UNCHANGED << err, mainVars, brackenVars >>

\* rarefaction_curve, lines 180-184: one iteration of the loop.
Subsample ==
  /\ pc = "loop"
  /\ InRange(depth, total_reads)
  /\ \E S \in Subsamples(sample_data, depth) :
       rarefaction_data' = (depth :> NUnique(sample_data, S)) @@ rarefaction_data
  /\ depth' = depth + DepthStep
  /\ UNCHANGED << pc, err, sample_data, total_reads, mainVars, brackenVars >>

\* rarefaction_curve, line 186: the loop is over, the dictionary is returned.
ReturnCurve ==
  /\ pc = "loop"
  /\ ~InRange(depth, total_reads)
  /\ pc' = "done"
  /\ UNCHANGED << err, rareVars, mainVars, brackenVars >>

RareInit ==
  /\ pc = "sample"
  /\ err = "none"
  /\ MainIdle
  /\ BrackenIdle
  /\ RareIdle

RareNext ==
  \/ SelectSample
  \/ Subsample
  \/ ReturnCurve

RareSpec == RareInit /\ [][RareNext]_vars

\* Taxa of the sample that have a positive read count.
PositiveTaxa(df) ==
  { df[k].taxonomy_id : k \in { m \in DOMAIN df : df[m].new_est_reads > 0 } }

\* C17: rarefaction_curve returns an entry for exactly the depths 10, 20, ...
\* below the total reads of the sample, and every entry v recorded satisfies
\* 1 <= v <= min(depth, number of taxa with a positive read count).
C17_RarefactionEntries ==
  /\ pc = "done" =>
       DOMAIN rarefaction_data =
         { d \in 1..total_reads : d % DepthStep = 0 /\ d < total_reads }
  /\ \A d \in DOMAIN rarefaction_data :
       /\ 1 <= rarefaction_data[d]
       /\ rarefaction_data[d] <= Min(d, Cardinality(PositiveTaxa(sample_data)))

\* Eleven taxa, depth 10: every draw hit another taxon, so v = depth < taxa.
C17_Witness ==
  /\ pc = "done"
  /\ Cardinality(PositiveTaxa(sample_data)) = 11
  /\ DOMAIN rarefaction_data = {10}
  /\ rarefaction_data[10] = 10
====
